---- MODULE Spec2Model ----
(***************************************************************************)
(* Healthify: the symptom vectorizer of the prediction backend             *)
(* (backend/helper.py, prepare_symptoms_array), the notebook that trains   *)
(* the symptom model, and the result rendering of the disease pages.       *)
(***************************************************************************)
EXTENDS Integers, Sequences, FiniteSets, TLC

VARIABLES
    dataset,              \* data/clean_dataset.tsv on disk: its header row and which column is the non-symptom one
    all_unique_symptoms,  \* the notebook's feature order, list(set(all_symptoms))
    call,                 \* the last finished call of a vectorizer: who, its argument, what it returned
    requests,             \* serving process: the local variables of each request in flight
    loaded,               \* serving process: the header row read by the first call of the process
    page,                 \* the disease page the browser shows
    prediction,           \* the page's prediction state: the response it stored
    view,                 \* what the page renders for the stored prediction
    formData,             \* the page's form state: its properties in insertion order
    body,                 \* the body of the prediction request the page has sent
    clicks,               \* the inputs the user has made on the form
    loading,              \* the page's loading (isLoading) state
    error,                \* the page's error state
    outstanding,          \* the page's fetches that have not settled, by the number of their submit
    submits,              \* the submits the page has handled
    sinceReset            \* history: Reset was clicked and nothing was submitted since

vectorizerVars == <<dataset, all_unique_symptoms, call>>
serveVars == <<requests, loaded>>
pageVars == <<page, prediction, view>>
formVars == <<formData, body, clicks>>
requestVars == <<loading, error, outstanding, submits, sinceReset>>

vars == <<dataset, all_unique_symptoms, call, requests, loaded, page, prediction, view,
          formData, body, clicks, loading, error, outstanding, submits, sinceReset>>

(***************************************************************************)
(* Bounds                                                                  *)
(***************************************************************************)
MaxCols == 3        \* columns of the dataset file, the non-symptom column included
MaxLen == 2         \* tokens in a symptom list
Resolution == 2     \* probabilities are the multiples of 1 / (10 * Resolution)
MaxClicks == 2      \* inputs the user makes on a form
MaxSubmits == 2     \* submits a page handles

(***************************************************************************)
(* Strings are sequences of characters; str.lower() acts on each one.      *)
(***************************************************************************)
LowerChar(c) ==
    CASE c = "F" -> "f"
      [] c = "E" -> "e"
      [] c = "C" -> "c"
      [] c = "O" -> "o"
      [] c = "D" -> "d"
      [] c = "I" -> "i"
      [] OTHER -> c

lower(s) == [i \in DOMAIN s |-> LowerChar(s[i])]

\* Header names a dataset file may carry.
ColumnNames == { <<"F", "e">>, <<"f", "e">>, <<"c", "o">>, <<"D", "i">> }

\* A token of the request's list: a string, or a value that is no string
\* (a number or null of the JSON body), on which .lower() does not exist.
Str(s) == [isStr |-> TRUE, chars |-> s]
NonStr == [isStr |-> FALSE, chars |-> <<>>]

Tokens ==
    { Str(s) : s \in ColumnNames \cup { <<"F", "E">>, <<"z", "z">> } }
        \cup { NonStr }

SymptomLists == UNION { [1..n -> Tokens] : n \in 0..MaxLen }

Injective(s) == \A i, j \in DOMAIN s : s[i] = s[j] => i = j

\* pandas.read_csv keeps header names distinct (a repeated name gets a suffix),
\* so the header row of a dataset is a duplicate-free sequence of strings.
Headers ==
    { s \in UNION { [1..n -> ColumnNames] : n \in 1..MaxCols } : Injective(s) }

\* One column of the dataset is not a symptom (the vector has one slot fewer
\* than the file has columns); the file does not say which, so it can be any.
Datasets ==
    UNION { { [columns |-> h, label |-> k] : k \in 1..Len(h) } : h \in Headers }

(***************************************************************************)
(* helper.py: prepare_symptoms_array(symptoms)                             *)
(***************************************************************************)
\* np.zeros((1, n)): the single row of the array.
zeros(n) == [j \in 1..n |-> 0]

\* df.columns.get_loc(name): the 0-based position of a header name.
get_loc(columns, name) ==
    (CHOOSE i \in DOMAIN columns : columns[i] = name) - 1

\* [col for col in df.columns if col.lower() == symptom.lower()]
matching_cols(columns, symptom) ==
    SelectSeq(columns, LAMBDA col : lower(col) = lower(symptom.chars))

\* The body of the try block, were the slot counted up (+= 1) instead of set.
TryBodyCounting(columns, symptoms_array, symptom) ==
    IF columns # <<>> /\ ~symptom.isStr
    THEN [arr |-> symptoms_array, exc |-> "AttributeError"]
    ELSE LET matching == matching_cols(columns, symptom) IN
         IF matching # <<>>
         THEN LET symptom_idx == get_loc(columns, matching[1]) IN
              IF symptom_idx < Len(symptoms_array)
              THEN [arr |-> [symptoms_array EXCEPT
                                ![symptom_idx + 1] = symptoms_array[symptom_idx + 1] + 1],
                    exc |-> "none"]
              ELSE [arr |-> symptoms_array, exc |-> "IndexError"]
         ELSE [arr |-> symptoms_array, exc |-> "none"]

\* The body of the try block for one symptom: the array afterwards and the
\* exception the body ended with ("none" when it ran to its end).
\*   symptom.lower() is evaluated once a column is compared: a token that is no
\*     string has no .lower()                              -> AttributeError
\*   symptoms_array[0, symptom_idx] = 1 with symptom_idx beyond the last slot
\*                                                         -> IndexError
TryBody(columns, symptoms_array, symptom) ==
    IF columns # <<>> /\ ~symptom.isStr
    THEN [arr |-> symptoms_array, exc |-> "AttributeError"]
    ELSE LET matching == matching_cols(columns, symptom) IN
         IF matching # <<>>
         THEN LET symptom_idx == get_loc(columns, matching[1]) IN
              IF symptom_idx < Len(symptoms_array)
              THEN [arr |-> [symptoms_array EXCEPT ![symptom_idx + 1] = 1], exc |-> "none"]
              ELSE [arr |-> symptoms_array, exc |-> "IndexError"]
         ELSE [arr |-> symptoms_array, exc |-> "none"]      \* prints the warning

\* One iteration without the except clause: the exception leaves the loop.
ProcessSymptomNoExcept(columns, symptoms_array, symptom) ==
    LET r == TryBody(columns, symptoms_array, symptom) IN
    [arr |-> r.arr, raised |-> r.exc]

\* One iteration of the for loop: try: ... except Exception as e: print; continue
ProcessSymptom(columns, symptoms_array, symptom) ==
    LET r == TryBody(columns, symptoms_array, symptom) IN
    [arr |-> r.arr, raised |-> "none"]

RECURSIVE ForLoop(_, _, _, _)
ForLoop(columns, symptoms_array, symptoms, i) ==
    IF i > Len(symptoms)
    THEN [raised |-> "none", array |-> symptoms_array]
    ELSE LET r == ProcessSymptom(columns, symptoms_array, symptoms[i]) IN
         IF r.raised # "none"
         THEN [raised |-> r.raised, array |-> <<>>]
         ELSE ForLoop(columns, r.arr, symptoms, i + 1)

\* One slot per column of the file, the non-symptom column included.
ArrayWidthAllColumns(columns) == Len(columns)

\* The width np.zeros is given: len(df.columns) - 1.
ArrayWidth(columns) == Len(columns) - 1

\* The array the loop starts from, were it kept between calls and only
\* allocated anew when the width changes.
InitialArrayReused(columns, previous) ==
    IF Len(previous) = ArrayWidth(columns) /\ previous # <<>>
    THEN previous
    ELSE zeros(ArrayWidth(columns))

\* symptoms_array = np.zeros((1, len(df.columns) - 1)): a fresh array on every
\* call, whatever array an earlier call returned.
InitialArray(columns, previous) == zeros(ArrayWidth(columns))

\* The whole function on the header row read_csv returned: what it returns, or
\* the exception that reaches the caller.
prepare_symptoms_array(columns, symptoms) ==
    ForLoop(columns, InitialArray(columns, <<>>), symptoms, 1)

\* The symptom vocabulary: the header names of the symptom columns, in file
\* order (every column but the non-symptom one).
Vocabulary(d) ==
    SelectSeq(d.columns, LAMBDA col : col # d.columns[d.label])

(***************************************************************************)
(* disease_prediction.ipynb: the feature order of the trained model        *)
(***************************************************************************)
\* list(set(all_symptoms)): a list of the distinct symptoms in the iteration
\* order of a Python set of strings, which is any order (string hashing is
\* salted per process).
ListOfSet(S) ==
    { s \in [1..Cardinality(S) -> S] : Injective(s) }

Range(s) == { s[i] : i \in DOMAIN s }

\* j = all_unique_symptoms.index(symptom), 0-based.
index(list, x) == (CHOOSE j \in DOMAIN list : list[j] = x) - 1

\* predict_disease builds X_input: for symptom in symptoms_list:
\*   if symptom in all_unique_symptoms: X_input[index] = 1
RECURSIVE XInput(_, _, _, _)
XInput(symptom_names, X_input, symptoms_list, i) ==
    IF i > Len(symptoms_list)
    THEN X_input
    ELSE LET symptom == symptoms_list[i] IN
         IF symptom.isStr /\ symptom.chars \in Range(symptom_names)
         THEN XInput(symptom_names,
                     [X_input EXCEPT ![index(symptom_names, symptom.chars) + 1] = 1],
                     symptoms_list, i + 1)
         ELSE XInput(symptom_names, X_input, symptoms_list, i + 1)

predict_disease_vector(symptom_names, symptoms_list) ==
    XInput(symptom_names, zeros(Len(symptom_names)), symptoms_list, 1)

(***************************************************************************)
(* The prediction response and what the disease pages render for it        *)
(***************************************************************************)
\* A probability is the number n / ProbDen, kept as its numerator n.
ProbDen == 10 * Resolution

Probabilities == 0..ProbDen

\* The backend's classify(probability): the flag and the risk bucket of the
\* response { prediction, probability, risk_level }.
Classify(probability) ==
    [prediction |-> 2 * probability >= ProbDen,
     probability |-> probability,
     risk_level |-> IF 10 * probability < 3 * ProbDen THEN "Low"
                    ELSE IF 10 * probability < 7 * ProbDen THEN "Medium"
                    ELSE "High"]

\* null in a state of type string | null; no message of the pages is this
\* string.
null == "null"

\* !error: the error state is null or '', and {error && ( ... )} shows nothing.
Empty(e) == e \in { null, "" }

\* null in the prediction state.
NoPrediction == [prediction |-> FALSE, probability |-> 0, risk_level |-> "null"]

\* Math.round(num / den) of a number that is not negative.
Round(num, den) == (2 * num + den) \div (2 * den)

\* 10 ^ digits
RECURSIVE Pow10(_)
Pow10(digits) == IF digits = 0 THEN 1 ELSE 10 * Pow10(digits - 1)

\* (num / den).toFixed(digits): the number shown, as a fraction.
toFixed(num, den, digits) ==
    [num |-> Round(num * Pow10(digits), den), den |-> Pow10(digits)]

\* The number a page writes in front of its "%" sign, as a fraction.
NoPercent == [num |-> 0, den |-> 0]

NoView == [color |-> "", riskColor |-> "", message |-> "", percent |-> NoPercent]

\* KidneyPage.getRiskColor(risk): switch (risk.toLowerCase())
getRiskColor(risk) ==
    CASE risk \in { "High", "high" } -> "bg-red-500"
      [] risk \in { "Medium", "medium" } -> "bg-yellow-500"
      [] risk \in { "Low", "low" } -> "bg-green-500"
      [] OTHER -> "bg-blue-500"

\* KidneyPage.getProbabilityColor(probability): the number is compared with
\* 70 and with 30.
getProbabilityColor(probability) ==
    IF probability >= 70 * ProbDen THEN "text-red-500"
    ELSE IF probability >= 30 * ProbDen THEN "text-yellow-500"
    ELSE "text-green-500"

\* KidneyPage: {prediction.probability}% : the number as received.
KidneyPercent(probability) == [num |-> probability, den |-> ProbDen]

\* BreastCancerPage: {prediction.probability}% : the number as received.
BreastPercent(probability) == [num |-> probability, den |-> ProbDen]

\* BreastCancerPage: the stroke of the progress circle.
BreastStroke(risk_level) ==
    IF risk_level = "High" THEN "#ef4444"
    ELSE IF risk_level = "Medium" THEN "#f59e0b"
    ELSE "#22c55e"

\* BreastCancerPage: the class of the risk level's badge.
BreastRiskColor(risk_level) ==
    IF risk_level = "High" THEN "text-red-400"
    ELSE IF risk_level = "Medium" THEN "text-yellow-400"
    ELSE "text-green-400"

\* LiverPage: {Math.round(prediction.probability * 100)}%
LiverPercent(probability) == [num |-> Round(100 * probability, ProbDen), den |-> 1]

\* ParkinsonsPage: {(prediction.probability * 100).toFixed(1)}%
ParkinsonsPercent(probability) == toFixed(100 * probability, ProbDen, 1)

\* HeartDiseasePage: {(prediction.probability * 100).toFixed(1)}%
HeartPercent(probability) == toFixed(100 * probability, ProbDen, 1)

\* DiabetesPage: {(prediction?.probability * 100).toFixed(2)}%
DiabetesPercent(probability) == toFixed(100 * probability, ProbDen, 2)

\* DiabetesPage: the class of the risk level's text.
DiabetesRiskColor(risk_level) ==
    IF risk_level = "High" THEN "text-red-500"
    ELSE IF risk_level = "Medium" THEN "text-yellow-500"
    ELSE "text-green-500"

\* LungCancerPage: {Math.round(prediction.probability * 100)}%
LungPercent(probability) == [num |-> Round(100 * probability, ProbDen), den |-> 1]

\* LungCancerPage: stroke={prediction.probability < 0.5 ? "#ef4444" : "#22c55e"}
LungStroke(probability) ==
    IF 2 * probability < ProbDen THEN "#ef4444" ELSE "#22c55e"

\* LungCancerPage: the class of the risk level's text.
LungRiskColor(probability) ==
    IF 2 * probability < ProbDen THEN "text-red-500" ELSE "text-green-500"

\* LungCancerPage: the message under the risk level, with the liver page's
\* comparison in place of its own.
LungRiskMessageAsLiver(probability) ==
    IF 2 * probability >= ProbDen
    THEN "High risk of lung cancer detected"
    ELSE "Low risk of lung cancer detected"

\* LungCancerPage: prediction.probability < 0.5 ? "High risk ..." : "Low risk ..."
LungRiskMessage(probability) ==
    IF 2 * probability < ProbDen
    THEN "High risk of lung cancer detected"
    ELSE "Low risk of lung cancer detected"

\* LiverPage: the message under the risk level, with > in place of >=.
LiverRiskMessageStrict(probability) ==
    IF 2 * probability > ProbDen
    THEN "High risk of liver disease detected"
    ELSE "Low risk of liver disease detected"

\* LiverPage: prediction.probability >= 0.5 ? "High risk ..." : "Low risk ..."
LiverRiskMessage(probability) ==
    IF 2 * probability >= ProbDen
    THEN "High risk of liver disease detected"
    ELSE "Low risk of liver disease detected"

\* LiverPage: the class of the risk level's text.
LiverRiskColor(probability) ==
    IF 2 * probability >= ProbDen THEN "text-red-500" ELSE "text-green-500"

\* ParkinsonsPage: prediction.probability >= 0.5 ? 'High risk ...' : 'Low risk ...'
ParkinsonsDiagnosis(probability) ==
    IF 2 * probability >= ProbDen
    THEN "High risk of Parkinsons disease detected"
    ELSE "Low risk of Parkinsons disease detected"

ParkinsonsColor(probability) ==
    IF 2 * probability >= ProbDen THEN "text-red-500" ELSE "text-green-500"

RenderedPages == { "kidney", "liver", "parkinsons", "breast", "heart", "diabetes", "lung" }

(***************************************************************************)
(* JavaScript values of the pages' forms: strings are sequences of         *)
(* characters, numbers are decimals num / 10 ^ exp or NaN                  *)
(***************************************************************************)
Digits == <<"0", "1", "2", "3", "4", "5", "6", "7", "8", "9">>

IsDigit(c) == \E d \in DOMAIN Digits : Digits[d] = c

DigitValue(c) == (CHOOSE d \in DOMAIN Digits : Digits[d] = c) - 1

\* The integer a string of digits writes.
RECURSIVE DigitsValue(_)
DigitsValue(s) ==
    IF s = <<>> THEN 0
    ELSE 10 * DigitsValue(SubSeq(s, 1, Len(s) - 1)) + DigitValue(s[Len(s)])

NaN == [nan |-> TRUE, num |-> 0, exp |-> 0]

\* A number without trailing zeros in its fraction: 28.50 is 28.5.
RECURSIVE Normalize(_)
Normalize(x) ==
    IF x.exp > 0 /\ x.num % 10 = 0
    THEN Normalize([x EXCEPT !.num = x.num \div 10, !.exp = x.exp - 1])
    ELSE x

\* The number num / 10 ^ exp.
Dec(num, exp) == Normalize([nan |-> FALSE, num |-> num, exp |-> exp])

\* StrDecimalLiteral without sign and exponent: digits with at most one point.
IsNumeral(s) ==
    /\ \A i \in DOMAIN s : IsDigit(s[i]) \/ s[i] = "."
    /\ Cardinality({ i \in DOMAIN s : s[i] = "." }) <= 1
    /\ \E i \in DOMAIN s : IsDigit(s[i])

NumeralValue(s) ==
    LET points == { i \in DOMAIN s : s[i] = "." }
        point == IF points = {} THEN Len(s) + 1 ELSE CHOOSE i \in points : TRUE
        whole == SubSeq(s, 1, point - 1)
        fraction == SubSeq(s, point + 1, Len(s))
    IN Dec(DigitsValue(whole \o fraction), Len(fraction))

\* Number(value): the empty string is 0, a numeral its value, the rest NaN.
Number(value) ==
    IF value = <<>> THEN Dec(0, 0)
    ELSE IF IsNumeral(value) THEN NumeralValue(value)
    ELSE NaN

\* parseFloat(value): the value of the longest prefix that is a numeral, NaN
\* when there is none (the empty string has none).
parseFloat(value) ==
    LET prefixes == { k \in 1..Len(value) : IsNumeral(SubSeq(value, 1, k)) } IN
    IF prefixes = {} THEN NaN
    ELSE NumeralValue(SubSeq(value, 1, CHOOSE k \in prefixes : \A j \in prefixes : j <= k))

\* parseInt(value): the value of the leading digits, NaN when there are none.
parseInt(value) ==
    LET k == CHOOSE k \in 0..Len(value) :
                 /\ \A j \in 1..k : IsDigit(value[j])
                 /\ k < Len(value) => ~IsDigit(value[k + 1])
    IN IF k = 0 THEN NaN ELSE Dec(DigitsValue(SubSeq(value, 1, k)), 0)

\* The digits of a natural number.
RECURSIVE IntToChars(_)
IntToChars(n) ==
    IF n < 10 THEN <<Digits[n + 1]>>
    ELSE IntToChars(n \div 10) \o <<Digits[(n % 10) + 1]>>

\* s with zeros in front, up to the width.
RECURSIVE ZeroPad(_, _)
ZeroPad(s, width) == IF Len(s) >= width THEN s ELSE ZeroPad(<<"0">> \o s, width)

\* num.toString() of a number that is not negative.
toString(x) ==
    IF x.nan THEN <<"N", "a", "N">>
    ELSE IF x.exp = 0 THEN IntToChars(x.num)
    ELSE IntToChars(x.num \div Pow10(x.exp)) \o <<".">>
         \o ZeroPad(IntToChars(x.num % Pow10(x.exp)), x.exp)

\* JSON.stringify of a number (NaN is written null) and of a string.
JsonNumber(x) ==
    IF x.nan THEN [type |-> "null", num |-> 0, exp |-> 0, chars |-> <<>>]
    ELSE [type |-> "number", num |-> x.num, exp |-> x.exp, chars |-> <<>>]

JsonString(s) == [type |-> "string", num |-> 0, exp |-> 0, chars |-> s]

\* An object is the sequence of its properties in insertion order.
Field(key, value) == [key |-> key, value |-> value]

Keys(obj) == [i \in DOMAIN obj |-> obj[i].key]

Has(obj, key) == \E i \in DOMAIN obj : obj[i].key = key

Get(obj, key) == obj[CHOOSE i \in DOMAIN obj : obj[i].key = key].value

\* { ...obj, [key]: value }
Set(obj, key, value) ==
    IF Has(obj, key)
    THEN [i \in DOMAIN obj |-> IF obj[i].key = key THEN Field(key, value) ELSE obj[i]]
    ELSE Append(obj, Field(key, value))

(***************************************************************************)
(* utils/sampleData.ts                                                     *)
(***************************************************************************)
\* Math.random() returns u / RandomDen; the draws followed are 0, about one
\* half and the largest.
RandomDen == 8

RandomDraws == { 0, RandomDen \div 2, RandomDen - 1 }

\* getRandomNumber(min, max, decimals) when Math.random() returns u / RandomDen:
\* Number((random * (max - min) + min).toFixed(decimals))
getRandomNumber(min, max, decimals, u) ==
    LET lo == min.num * Pow10(decimals - min.exp)
        hi == max.num * Pow10(decimals - max.exp)
    IN Dec(lo + Round(u * (hi - lo), RandomDen), decimals)

formatNumber(num) == toString(num)

\* The i-th call of Math.random() in a generator: u at the odd calls, v at the
\* even ones.
Draw(i, u, v) == IF i % 2 = 1 THEN u ELSE v

(***************************************************************************)
(* The forms of the disease pages                                          *)
(***************************************************************************)
NoFormData == <<>>

NoBody == <<>>

\* What a number input can hold: nothing, or a valid floating-point number.
Typed == { <<>>, <<"7">>, <<"2", "8", ".", "5">> }

\* HeartDiseasePage: useState({ age: '', sex: '1', ... })
HeartFormData ==
    << Field("age", <<>>),
       Field("sex", <<"1">>),
       Field("cp", <<"0">>),
       Field("trestbps", <<>>),
       Field("chol", <<>>),
       Field("fbs", <<"0">>),
       Field("restecg", <<"0">>),
       Field("thalach", <<>>),
       Field("exang", <<"0">>),
       Field("slope", <<"0">>),
       Field("ca", <<"0">>),
       Field("thal", <<"1">>) >>

\* getRandomHeartData()
getRandomHeartData(u, v) ==
    << Field("age", formatNumber(getRandomNumber(Dec(25, 0), Dec(85, 0), 0, Draw(1, u, v)))),
       Field("sex", formatNumber(getRandomNumber(Dec(0, 0), Dec(1, 0), 0, Draw(2, u, v)))),
       Field("cp", formatNumber(getRandomNumber(Dec(0, 0), Dec(3, 0), 0, Draw(3, u, v)))),
       Field("trestbps", formatNumber(getRandomNumber(Dec(90, 0), Dec(200, 0), 0, Draw(4, u, v)))),
       Field("chol", formatNumber(getRandomNumber(Dec(120, 0), Dec(570, 0), 0, Draw(5, u, v)))),
       Field("fbs", formatNumber(getRandomNumber(Dec(0, 0), Dec(1, 0), 0, Draw(6, u, v)))),
       Field("restecg", formatNumber(getRandomNumber(Dec(0, 0), Dec(2, 0), 0, Draw(7, u, v)))),
       Field("thalach", formatNumber(getRandomNumber(Dec(70, 0), Dec(210, 0), 0, Draw(8, u, v)))),
       Field("exang", formatNumber(getRandomNumber(Dec(0, 0), Dec(1, 0), 0, Draw(9, u, v)))),
       Field("oldpeak", formatNumber(getRandomNumber(Dec(0, 0), Dec(62, 1), 1, Draw(10, u, v)))),
       Field("slope", formatNumber(getRandomNumber(Dec(0, 0), Dec(2, 0), 0, Draw(11, u, v)))),
       Field("ca", formatNumber(getRandomNumber(Dec(0, 0), Dec(4, 0), 0, Draw(12, u, v)))),
       Field("thal", formatNumber(getRandomNumber(Dec(0, 0), Dec(3, 0), 0, Draw(13, u, v)))) >>

\* HeartDiseasePage: the names of its inputs of type number
HeartNumberInputs ==
    { "age", "trestbps", "chol", "thalach" }

\* HeartDiseasePage: what its inputs and selects can pass to handleInputChange
HeartInputs ==
    { <<name, value>> : name \in HeartNumberInputs, value \in Typed }
    \cup { <<name, value>> : name \in { "sex", "fbs", "exang" },
                           value \in { <<"0">>, <<"1">> } }
    \cup { <<name, value>> : name \in { "cp", "ca" },
                           value \in { <<"0">>, <<"1">>, <<"2">>, <<"3">> } }
    \cup { <<name, value>> : name \in { "restecg", "slope" },
                           value \in { <<"0">>, <<"1">>, <<"2">> } }
    \cup { <<name, value>> : name \in { "thal" },
                           value \in { <<"1">>, <<"2">>, <<"3">> } }

\* DiabetesPage: useState({ Pregnancies: '4', ... })
DiabetesFormData ==
    << Field("Pregnancies", <<"4">>),
       Field("Glucose", <<"1", "3", "0">>),
       Field("BloodPressure", <<"7", "8">>),
       Field("SkinThickness", <<"2", "5">>),
       Field("Insulin", <<"1", "2", "0">>),
       Field("BMI", <<"2", "8", ".", "5">>),
       Field("DiabetesPedigreeFunction", <<"0", ".", "8", "5">>),
       Field("Age", <<"3", "5">>) >>

\* getRandomDiabetesData()
getRandomDiabetesData(u, v) ==
    << Field("Pregnancies", formatNumber(getRandomNumber(Dec(0, 0), Dec(17, 0), 0, Draw(1, u, v)))),
       Field("Glucose", formatNumber(getRandomNumber(Dec(70, 0), Dec(200, 0), 0, Draw(2, u, v)))),
       Field("BloodPressure", formatNumber(getRandomNumber(Dec(50, 0), Dec(130, 0), 0, Draw(3, u, v)))),
       Field("SkinThickness", formatNumber(getRandomNumber(Dec(0, 0), Dec(60, 0), 0, Draw(4, u, v)))),
       Field("Insulin", formatNumber(getRandomNumber(Dec(0, 0), Dec(850, 0), 0, Draw(5, u, v)))),
       Field("BMI", formatNumber(getRandomNumber(Dec(15, 0), Dec(60, 0), 1, Draw(6, u, v)))),
       Field("DiabetesPedigreeFunction", formatNumber(getRandomNumber(Dec(1, 1), Dec(25, 1), 3, Draw(7, u, v)))),
       Field("Age", formatNumber(getRandomNumber(Dec(21, 0), Dec(85, 0), 0, Draw(8, u, v)))) >>

\* DiabetesPage: the names of its inputs of type number
DiabetesNumberInputs ==
    { "Pregnancies", "Glucose", "BloodPressure", "SkinThickness", "Insulin", "BMI",
      "DiabetesPedigreeFunction", "Age" }

\* DiabetesPage: its eight number inputs
DiabetesInputs ==
    { <<name, value>> : name \in DiabetesNumberInputs, value \in Typed }

\* KidneyPage: useState<KidneyFormData>({ age: '', ... })
KidneyFormData ==
    << Field("age", <<>>),
       Field("bp", <<>>),
       Field("sg", <<>>),
       Field("al", <<>>),
       Field("su", <<>>),
       Field("rbc", <<"n", "o", "r", "m", "a", "l">>),
       Field("pc", <<"n", "o", "r", "m", "a", "l">>),
       Field("pcc", <<"n", "o", "t", "p", "r", "e", "s", "e", "n", "t">>),
       Field("ba", <<"n", "o", "t", "p", "r", "e", "s", "e", "n", "t">>),
       Field("bgr", <<>>),
       Field("bu", <<>>),
       Field("sc", <<>>),
       Field("sod", <<>>),
       Field("pot", <<>>),
       Field("hemo", <<>>),
       Field("pcv", <<>>),
       Field("wc", <<>>),
       Field("rc", <<>>),
       Field("htn", <<"n", "o">>),
       Field("dm", <<"n", "o">>),
       Field("cad", <<"n", "o">>),
       Field("appet", <<"g", "o", "o", "d">>),
       Field("pe", <<"n", "o">>),
       Field("ane", <<"n", "o">>) >>

\* getRandomKidneyData(); KidneyPage.handleSampleData spreads it and casts the tokens
getRandomKidneyData(u, v) ==
    << Field("age", formatNumber(getRandomNumber(Dec(2, 0), Dec(90, 0), 0, Draw(1, u, v)))),
       Field("bp", formatNumber(getRandomNumber(Dec(50, 0), Dec(180, 0), 0, Draw(2, u, v)))),
       Field("sg", formatNumber(getRandomNumber(Dec(1005, 3), Dec(1025, 3), 3, Draw(3, u, v)))),
       Field("al", formatNumber(getRandomNumber(Dec(0, 0), Dec(5, 0), 0, Draw(4, u, v)))),
       Field("su", formatNumber(getRandomNumber(Dec(0, 0), Dec(5, 0), 0, Draw(5, u, v)))),
       Field("rbc", IF 2 * Draw(6, u, v) > RandomDen THEN <<"n", "o", "r", "m", "a", "l">> ELSE <<"a", "b", "n", "o", "r", "m", "a", "l">>),
       Field("pc", IF 2 * Draw(7, u, v) > RandomDen THEN <<"n", "o", "r", "m", "a", "l">> ELSE <<"a", "b", "n", "o", "r", "m", "a", "l">>),
       Field("pcc", IF 2 * Draw(8, u, v) > RandomDen THEN <<"p", "r", "e", "s", "e", "n", "t">> ELSE <<"n", "o", "t", "p", "r", "e", "s", "e", "n", "t">>),
       Field("ba", IF 2 * Draw(9, u, v) > RandomDen THEN <<"p", "r", "e", "s", "e", "n", "t">> ELSE <<"n", "o", "t", "p", "r", "e", "s", "e", "n", "t">>),
       Field("bgr", formatNumber(getRandomNumber(Dec(70, 0), Dec(490, 0), 0, Draw(10, u, v)))),
       Field("bu", formatNumber(getRandomNumber(Dec(10, 0), Dec(200, 0), 0, Draw(11, u, v)))),
       Field("sc", formatNumber(getRandomNumber(Dec(4, 1), Dec(15, 0), 1, Draw(12, u, v)))),
       Field("sod", formatNumber(getRandomNumber(Dec(110, 0), Dec(150, 0), 0, Draw(13, u, v)))),
       Field("pot", formatNumber(getRandomNumber(Dec(2, 0), Dec(7, 0), 1, Draw(14, u, v)))),
       Field("hemo", formatNumber(getRandomNumber(Dec(31, 1), Dec(178, 1), 1, Draw(15, u, v)))),
       Field("pcv", formatNumber(getRandomNumber(Dec(9, 0), Dec(54, 0), 0, Draw(16, u, v)))),
       Field("wc", formatNumber(getRandomNumber(Dec(3800, 0), Dec(21000, 0), 0, Draw(17, u, v)))),
       Field("rc", formatNumber(getRandomNumber(Dec(21, 1), Dec(8, 0), 1, Draw(18, u, v)))),
       Field("htn", IF 2 * Draw(19, u, v) > RandomDen THEN <<"y", "e", "s">> ELSE <<"n", "o">>),
       Field("dm", IF 2 * Draw(20, u, v) > RandomDen THEN <<"y", "e", "s">> ELSE <<"n", "o">>),
       Field("cad", IF 2 * Draw(21, u, v) > RandomDen THEN <<"y", "e", "s">> ELSE <<"n", "o">>),
       Field("appet", IF 2 * Draw(22, u, v) > RandomDen THEN <<"g", "o", "o", "d">> ELSE <<"p", "o", "o", "r">>),
       Field("pe", IF 2 * Draw(23, u, v) > RandomDen THEN <<"y", "e", "s">> ELSE <<"n", "o">>),
       Field("ane", IF 2 * Draw(24, u, v) > RandomDen THEN <<"y", "e", "s">> ELSE <<"n", "o">>) >>

\* KidneyPage: the names of its inputs of type number
KidneyNumberInputs ==
    { "age", "bp", "sg", "al", "su", "bgr", "bu", "sc", "sod", "pot", "hemo", "pcv",
      "wc", "rc" }

\* KidneyPage: inputGroups and selectGroups
KidneyInputs ==
    { <<name, value>> : name \in KidneyNumberInputs, value \in Typed }
    \cup { <<name, value>> : name \in { "rbc", "pc" },
                           value \in { <<"n", "o", "r", "m", "a", "l">>, <<"a", "b", "n", "o", "r", "m", "a", "l">> } }
    \cup { <<name, value>> : name \in { "pcc", "ba" },
                           value \in { <<"p", "r", "e", "s", "e", "n", "t">>, <<"n", "o", "t", "p", "r", "e", "s", "e", "n", "t">> } }
    \cup { <<name, value>> : name \in { "htn", "dm", "cad", "pe", "ane" },
                           value \in { <<"y", "e", "s">>, <<"n", "o">> } }
    \cup { <<name, value>> : name \in { "appet" },
                           value \in { <<"g", "o", "o", "d">>, <<"p", "o", "o", "r">> } }

\* LungCancerPage: useState({ gender: 'M', age: '', ... }), also what handleReset sets
LungFormData ==
    << Field("gender", <<"M">>),
       Field("age", <<>>),
       Field("smoking", <<"0">>),
       Field("yellow_fingers", <<"0">>),
       Field("anxiety", <<"0">>),
       Field("peer_pressure", <<"0">>),
       Field("chronic_disease", <<"0">>),
       Field("fatigue", <<"0">>),
       Field("allergy", <<"0">>),
       Field("wheezing", <<"0">>),
       Field("alcohol_consuming", <<"0">>),
       Field("coughing", <<"0">>),
       Field("shortness_of_breath", <<"0">>),
       Field("swallowing_difficulty", <<"0">>),
       Field("chest_pain", <<"0">>) >>

\* getRandomLungData()
getRandomLungData(u, v) ==
    << Field("gender", IF 2 * Draw(1, u, v) > RandomDen THEN <<"M">> ELSE <<"F">>),
       Field("age", formatNumber(getRandomNumber(Dec(20, 0), Dec(90, 0), 0, Draw(2, u, v)))),
       Field("smoking", formatNumber(getRandomNumber(Dec(0, 0), Dec(1, 0), 0, Draw(3, u, v)))),
       Field("yellow_fingers", formatNumber(getRandomNumber(Dec(0, 0), Dec(1, 0), 0, Draw(4, u, v)))),
       Field("anxiety", formatNumber(getRandomNumber(Dec(0, 0), Dec(1, 0), 0, Draw(5, u, v)))),
       Field("peer_pressure", formatNumber(getRandomNumber(Dec(0, 0), Dec(1, 0), 0, Draw(6, u, v)))),
       Field("chronic_disease", formatNumber(getRandomNumber(Dec(0, 0), Dec(1, 0), 0, Draw(7, u, v)))),
       Field("fatigue", formatNumber(getRandomNumber(Dec(0, 0), Dec(1, 0), 0, Draw(8, u, v)))),
       Field("allergy", formatNumber(getRandomNumber(Dec(0, 0), Dec(1, 0), 0, Draw(9, u, v)))),
       Field("wheezing", formatNumber(getRandomNumber(Dec(0, 0), Dec(1, 0), 0, Draw(10, u, v)))),
       Field("alcohol_consuming", formatNumber(getRandomNumber(Dec(0, 0), Dec(1, 0), 0, Draw(11, u, v)))),
       Field("coughing", formatNumber(getRandomNumber(Dec(0, 0), Dec(1, 0), 0, Draw(12, u, v)))),
       Field("shortness_of_breath", formatNumber(getRandomNumber(Dec(0, 0), Dec(1, 0), 0, Draw(13, u, v)))),
       Field("swallowing_difficulty", formatNumber(getRandomNumber(Dec(0, 0), Dec(1, 0), 0, Draw(14, u, v)))),
       Field("chest_pain", formatNumber(getRandomNumber(Dec(0, 0), Dec(1, 0), 0, Draw(15, u, v)))) >>

\* LungCancerPage: the names of its inputs of type number
LungNumberInputs ==
    { "age" }

\* LungCancerPage: the gender select, the age input, the thirteen symptom selects
LungInputs ==
    { <<name, value>> : name \in LungNumberInputs, value \in Typed }
    \cup { <<name, value>> : name \in { "gender" },
                           value \in { <<"M">>, <<"F">> } }
    \cup { <<name, value>> : name \in { "smoking", "yellow_fingers", "anxiety", "peer_pressure", "chronic_disease", "fatigue", "allergy", "wheezing", "alcohol_consuming", "coughing", "shortness_of_breath", "swallowing_difficulty", "chest_pain" },
                           value \in { <<"0">>, <<"1">>, <<"2">> } }

\* LiverPage: useState<FormData>({ age: '', gender: '1', ... })
LiverFormData ==
    << Field("age", <<>>),
       Field("gender", <<"1">>),
       Field("total_bilirubin", <<>>),
       Field("direct_bilirubin", <<>>),
       Field("alkaline_phosphotase", <<>>),
       Field("alamine_aminotransferase", <<>>),
       Field("aspartate_aminotransferase", <<>>),
       Field("total_proteins", <<>>),
       Field("albumin", <<>>),
       Field("albumin_globulin_ratio", <<>>) >>

\* getRandomLiverData()
getRandomLiverData(u, v) ==
    << Field("age", formatNumber(getRandomNumber(Dec(4, 0), Dec(90, 0), 0, Draw(1, u, v)))),
       Field("gender", formatNumber(getRandomNumber(Dec(0, 0), Dec(1, 0), 0, Draw(2, u, v)))),
       Field("total_bilirubin", formatNumber(getRandomNumber(Dec(1, 1), Dec(75, 0), 1, Draw(3, u, v)))),
       Field("direct_bilirubin", formatNumber(getRandomNumber(Dec(0, 0), Dec(20, 0), 1, Draw(4, u, v)))),
       Field("alkaline_phosphotase", formatNumber(getRandomNumber(Dec(60, 0), Dec(2200, 0), 0, Draw(5, u, v)))),
       Field("alamine_aminotransferase", formatNumber(getRandomNumber(Dec(10, 0), Dec(2000, 0), 0, Draw(6, u, v)))),
       Field("aspartate_aminotransferase", formatNumber(getRandomNumber(Dec(10, 0), Dec(5000, 0), 0, Draw(7, u, v)))),
       Field("total_proteins", formatNumber(getRandomNumber(Dec(2, 0), Dec(10, 0), 1, Draw(8, u, v)))),
       Field("albumin", formatNumber(getRandomNumber(Dec(9, 1), Dec(6, 0), 1, Draw(9, u, v)))),
       Field("albumin_globulin_ratio", formatNumber(getRandomNumber(Dec(3, 1), Dec(3, 0), 1, Draw(10, u, v)))) >>

\* LiverPage: the names of its inputs of type number
LiverNumberInputs ==
    { "age", "total_bilirubin", "direct_bilirubin", "alkaline_phosphotase",
      "alamine_aminotransferase", "aspartate_aminotransferase", "total_proteins",
      "albumin", "albumin_globulin_ratio" }

\* LiverPage: nine number inputs and the gender select (Select gender, Male, Female)
LiverInputs ==
    { <<name, value>> : name \in LiverNumberInputs, value \in Typed }
    \cup { <<name, value>> : name \in { "gender" },
                           value \in { <<>>, <<"1">>, <<"0">> } }

FormPages == { "heart", "diabetes", "kidney", "lung", "liver" }

InitialFormData(p) ==
    CASE p = "heart" -> HeartFormData
      [] p = "diabetes" -> DiabetesFormData
      [] p = "kidney" -> KidneyFormData
      [] p = "lung" -> LungFormData
      [] p = "liver" -> LiverFormData

Inputs(p) ==
    CASE p = "heart" -> HeartInputs
      [] p = "diabetes" -> DiabetesInputs
      [] p = "kidney" -> KidneyInputs
      [] p = "lung" -> LungInputs
      [] p = "liver" -> LiverInputs

NumberInputs(p) ==
    CASE p = "heart" -> HeartNumberInputs
      [] p = "diabetes" -> DiabetesNumberInputs
      [] p = "kidney" -> KidneyNumberInputs
      [] p = "lung" -> LungNumberInputs
      [] p = "liver" -> LiverNumberInputs

getRandomData(p, u, v) ==
    CASE p = "heart" -> getRandomHeartData(u, v)
      [] p = "diabetes" -> getRandomDiabetesData(u, v)
      [] p = "kidney" -> getRandomKidneyData(u, v)
      [] p = "lung" -> getRandomLungData(u, v)
      [] p = "liver" -> getRandomLiverData(u, v)

\* HeartDiseasePage.handlePredict:
\* Object.entries(formData).reduce((acc, [key, value]) => ({ ...acc, [key]: parseFloat(value) }), {})
HeartBody(data) ==
    [i \in DOMAIN data |-> Field(data[i].key, JsonNumber(parseFloat(data[i].value)))]

\* DiabetesPage.handlePredict with parseInt in place of Number.
DiabetesBodyParseInt(data) ==
    << Field("Pregnancies", JsonNumber(parseInt(Get(data, "Pregnancies")))),
       Field("Glucose", JsonNumber(parseInt(Get(data, "Glucose")))),
       Field("BloodPressure", JsonNumber(parseInt(Get(data, "BloodPressure")))),
       Field("SkinThickness", JsonNumber(parseInt(Get(data, "SkinThickness")))),
       Field("Insulin", JsonNumber(parseInt(Get(data, "Insulin")))),
       Field("BMI", JsonNumber(parseInt(Get(data, "BMI")))),
       Field("DiabetesPedigreeFunction", JsonNumber(parseInt(Get(data, "DiabetesPedigreeFunction")))),
       Field("Age", JsonNumber(parseInt(Get(data, "Age")))) >>

\* DiabetesPage.handlePredict: JSON.stringify({ Pregnancies: Number(formData.Pregnancies), ... })
DiabetesBody(data) ==
    << Field("Pregnancies", JsonNumber(Number(Get(data, "Pregnancies")))),
       Field("Glucose", JsonNumber(Number(Get(data, "Glucose")))),
       Field("BloodPressure", JsonNumber(Number(Get(data, "BloodPressure")))),
       Field("SkinThickness", JsonNumber(Number(Get(data, "SkinThickness")))),
       Field("Insulin", JsonNumber(Number(Get(data, "Insulin")))),
       Field("BMI", JsonNumber(Number(Get(data, "BMI")))),
       Field("DiabetesPedigreeFunction", JsonNumber(Number(Get(data, "DiabetesPedigreeFunction")))),
       Field("Age", JsonNumber(Number(Get(data, "Age")))) >>

\* KidneyPage.handleSubmit: numericFields without its last entry.
numericFieldsWithoutRc ==
    { "age", "bp", "sg", "al", "su", "bgr", "bu", "sc", "sod", "pot", "hemo", "pcv", "wc" }

\* KidneyPage.handleSubmit: const numericFields = [ 'age', 'bp', ... ]
numericFields ==
    { "age", "bp", "sg", "al", "su", "bgr", "bu", "sc", "sod", "pot", "hemo", "pcv", "wc", "rc" }

\* KidneyPage.handleSubmit:
\* numericFields.includes(key) ? (value === '' ? 0 : Number(value)) : value
KidneyTransformedValue(key, value) ==
    IF key \in numericFields
    THEN (IF value = <<>> THEN JsonNumber(Dec(0, 0)) ELSE JsonNumber(Number(value)))
    ELSE JsonString(value)

KidneyBody(data) ==
    [i \in DOMAIN data |-> Field(data[i].key, KidneyTransformedValue(data[i].key, data[i].value))]

\* KidneyPage: the inputs of inputGroups are required and the button submits
\* the form, so onSubmit runs only when none of them is empty.
KidneyFormValid(data) ==
    \A i \in DOMAIN data : data[i].key \in KidneyNumberInputs => data[i].value # <<>>

\* LungCancerPage.handleSubmit: body: JSON.stringify(formData)
LungBody(data) == [i \in DOMAIN data |-> Field(data[i].key, JsonString(data[i].value))]

\* LiverPage.handleSubmit: gender: formData.gender === '1' ? 1 : 0
LiverGender(gender) == IF gender = <<"1">> THEN Dec(1, 0) ELSE Dec(0, 0)

\* LiverPage.handleSubmit: const numericFormData = { age: parseInt(formData.age), ... }
LiverBody(data) ==
    << Field("age", JsonNumber(parseInt(Get(data, "age")))),
       Field("gender", JsonNumber(LiverGender(Get(data, "gender")))),
       Field("total_bilirubin", JsonNumber(parseFloat(Get(data, "total_bilirubin")))),
       Field("direct_bilirubin", JsonNumber(parseFloat(Get(data, "direct_bilirubin")))),
       Field("alkaline_phosphotase", JsonNumber(parseFloat(Get(data, "alkaline_phosphotase")))),
       Field("alamine_aminotransferase", JsonNumber(parseFloat(Get(data, "alamine_aminotransferase")))),
       Field("aspartate_aminotransferase", JsonNumber(parseFloat(Get(data, "aspartate_aminotransferase")))),
       Field("total_proteins", JsonNumber(parseFloat(Get(data, "total_proteins")))),
       Field("albumin", JsonNumber(parseFloat(Get(data, "albumin")))),
       Field("albumin_globulin_ratio", JsonNumber(parseFloat(Get(data, "albumin_globulin_ratio")))) >>

(***************************************************************************)
(* The categorical encodings of the training notebooks                     *)
(***************************************************************************)
\* The characters of the tokens, in code point order.
CodePoints ==
    << "F", "M", "a", "b", "d", "e", "g", "l", "m", "n", "o", "p", "r", "s", "t", "y" >>

CodePoint(c) == CHOOSE i \in DOMAIN CodePoints : CodePoints[i] = c

\* s < t for Python strings.
RECURSIVE StrLess(_, _)
StrLess(s, t) ==
    IF t = <<>> THEN FALSE
    ELSE IF s = <<>> THEN TRUE
    ELSE IF s[1] # t[1] THEN CodePoint(s[1]) < CodePoint(t[1])
    ELSE StrLess(Tail(s), Tail(t))

\* np.unique(values): the distinct values in ascending order.
RECURSIVE Sorted(_)
Sorted(values) ==
    IF values = {} THEN <<>>
    ELSE LET least == CHOOSE x \in values : \A y \in values \ { x } : StrLess(x, y)
         IN <<least>> \o Sorted(values \ { least })

\* categorical_cols of the kidney notebook.
categorical_cols == { "rbc", "pc", "pcc", "ba", "htn", "dm", "cad", "appet", "pe", "ane" }

\* The tokens a kidney column holds, those the page's selects offer.
ColumnTokens(col) ==
    CASE col \in { "rbc", "pc" } -> { <<"n", "o", "r", "m", "a", "l">>, <<"a", "b", "n", "o", "r", "m", "a", "l">> }
      [] col \in { "pcc", "ba" } -> { <<"p", "r", "e", "s", "e", "n", "t">>, <<"n", "o", "t", "p", "r", "e", "s", "e", "n", "t">> }
      [] col \in { "htn", "dm", "cad", "pe", "ane" } -> { <<"y", "e", "s">>, <<"n", "o">> }
      [] col = "appet" -> { <<"g", "o", "o", "d">>, <<"p", "o", "o", "r">> }
      [] col = "GENDER" -> { <<"M">>, <<"F">> }

\* LabelEncoder().fit(column): classes_, and the code of each class, its
\* position in classes_ counted from 0, as the set of pairs <<token, code>>.
LabelEncoderFit(column) ==
    LET classes_ == Sorted(column) IN
    { <<classes_[i], i - 1>> : i \in DOMAIN classes_ }

\* The lung notebook's GENDER map with a repeated code.
GenderMapSameCode == { <<<<"M">>, 1>>, <<<<"F">>, 1>> }

\* df_processed['GENDER'].map({'M': 1, 'F': 0})
GenderMap == { <<<<"M">>, 1>>, <<<<"F">>, 0>> }

\* The table the notebook encodes a column with.
TrainingTable(col, column) ==
    IF col = "GENDER" THEN GenderMap ELSE LabelEncoderFit(column)

\* The code a table gives a token: le.transform raises ValueError on a label
\* it has not seen, Series.map gives NaN for a key the dict lacks.
Transform(table, token) ==
    IF \E pair \in table : pair[1] = token
    THEN [raised |-> "none", code |-> (CHOOSE pair \in table : pair[1] = token)[2]]
    ELSE [raised |-> "unseen", code |-> -1]

\* The token a table gives back for a code: le.inverse_transform.
InverseTransform(table, code) == (CHOOSE pair \in table : pair[2] = code)[1]

\* The encodingRule of a kidney field as the spec states it:
\* "normal" -> 0, "abnormal" -> 1, and likewise the second token of
\* notpresent / present and of no / yes.
encodingRule(col) ==
    CASE col \in { "rbc", "pc" } -> { <<<<"n", "o", "r", "m", "a", "l">>, 0>>, <<<<"a", "b", "n", "o", "r", "m", "a", "l">>, 1>> }
      [] col \in { "pcc", "ba" } -> { <<<<"n", "o", "t", "p", "r", "e", "s", "e", "n", "t">>, 0>>, <<<<"p", "r", "e", "s", "e", "n", "t">>, 1>> }
      [] col \in { "htn", "dm", "cad", "pe", "ane" } -> { <<<<"n", "o">>, 0>>, <<<<"y", "e", "s">>, 1>> }

(***************************************************************************)
(* The vectorizers applied to every dataset and every symptom list         *)
(***************************************************************************)
\* A request that has arrived and awaits its vectorizer.
Pending(symptoms) ==
    [fn |-> "none", symptoms |-> symptoms, raised |-> "none", array |-> <<>>]

NoRequests == <<>>

Init ==
    /\ dataset \in Datasets
    /\ all_unique_symptoms \in ListOfSet(Range(Vocabulary(dataset)))
    /\ call \in { Pending(symptoms) : symptoms \in SymptomLists }
    /\ requests = NoRequests
    /\ loaded = <<>>
    /\ page = "none"
    /\ prediction = NoPrediction
    /\ view = NoView
    /\ formData = NoFormData
    /\ body = NoBody
    /\ clicks = 0
    /\ loading = FALSE
    /\ error = null
    /\ outstanding = {}
    /\ submits = 0
    /\ sinceReset = FALSE

\* The service calls prepare_symptoms_array(symptoms) on the request's list.
Vectorize ==
    LET out == prepare_symptoms_array(dataset.columns, call.symptoms) IN
    /\ call.fn = "none"
    /\ call' = [call EXCEPT !.fn = "prepare_symptoms_array",
                            !.raised = out.raised, !.array = out.array]
    /\ UNCHANGED <<dataset, all_unique_symptoms, requests, loaded, pageVars, formVars, requestVars>>

\* The notebook calls predict_disease(symptoms_list) on the trained model.
PredictDisease ==
    /\ call.fn = "none"
    /\ call' = [call EXCEPT !.fn = "predict_disease",
                            !.array = predict_disease_vector(all_unique_symptoms,
                                                             call.symptoms)]
    /\ UNCHANGED <<dataset, all_unique_symptoms, requests, loaded, pageVars, formVars, requestVars>>

Next ==
    \/ Vectorize
    \/ PredictDisease

Spec == Init /\ [][Next]_vars

\* The same, on the datasets whose non-symptom column is the last one: the
\* layout in which column position and slot number coincide.
InitLabelLast ==
    /\ Init
    /\ dataset.label = Len(dataset.columns)

SpecLabelLast == InitLabelLast /\ [][Next]_vars

(***************************************************************************)
(* The serving process: requests in flight while the dataset file changes  *)
(***************************************************************************)
\* Two requests can be in flight at once.
Workers == { 1, 2 }

\* Successive versions of data/clean_dataset.tsv: a symptom column is added in
\* front of, or behind, the one the first version has.
DatasetVersions ==
    { [columns |-> << <<"f", "e">>, <<"D", "i">> >>, label |-> 2],
      [columns |-> << <<"c", "o">>, <<"f", "e">>, <<"D", "i">> >>, label |-> 3],
      [columns |-> << <<"f", "e">>, <<"c", "o">>, <<"D", "i">> >>, label |-> 3] }

\* The symptom lists the clients send.
ServeLists ==
    { <<>>,
      << Str(<<"F", "E">>) >>,
      << Str(<<"c", "o">>) >>,
      << NonStr, Str(<<"f", "e">>) >> }

NoResponse == [symptoms |-> <<>>, columns |-> <<>>, raised |-> "none", array |-> <<>>]

Idle == [pc |-> "idle", symptoms |-> <<>>, df |-> <<>>, response |-> NoResponse]

InitServe ==
    /\ dataset \in DatasetVersions
    /\ all_unique_symptoms = <<>>
    /\ call = Pending(<<>>)
    /\ requests = [w \in Workers |-> Idle]
    /\ loaded = <<>>
    /\ page = "none"
    /\ prediction = NoPrediction
    /\ view = NoView
    /\ formData = NoFormData
    /\ body = NoBody
    /\ clicks = 0
    /\ loading = FALSE
    /\ error = null
    /\ outstanding = {}
    /\ submits = 0
    /\ sinceReset = FALSE

\* A request enters prepare_symptoms_array: df = pd.read_csv(...) reads the
\* file as it is on disk now.
ReadCsv(w, symptoms) ==
    /\ requests[w].pc = "idle"
    /\ requests' = [requests EXCEPT ![w].pc = "loop",
                                    ![w].symptoms = symptoms,
                                    ![w].df = dataset.columns]
    /\ loaded' = IF loaded = <<>> THEN dataset.columns ELSE loaded
    /\ UNCHANGED <<vectorizerVars, pageVars, formVars, requestVars>>

\* The loop over the request's symptoms, on the request's own df and array,
\* and the return of the array to the caller.
Return(w) ==
    LET r == requests[w]
        out == ForLoop(r.df, InitialArray(r.df, r.response.array), r.symptoms, 1) IN
    /\ r.pc = "loop"
    /\ requests' = [requests EXCEPT ![w].pc = "idle",
                                    ![w].response = [symptoms |-> r.symptoms,
                                                     columns |-> r.df,
                                                     raised |-> out.raised,
                                                     array |-> out.array]]
    /\ UNCHANGED <<vectorizerVars, loaded, pageVars, formVars, requestVars>>

\* The dataset file is replaced on disk while the process runs.
ChangeFile(d) ==
    /\ d # dataset
    /\ dataset' = d
    /\ UNCHANGED <<all_unique_symptoms, call, serveVars, pageVars, formVars, requestVars>>

NextServe ==
    \/ \E w \in Workers, symptoms \in ServeLists : ReadCsv(w, symptoms)
    \/ \E w \in Workers : Return(w)
    \/ \E d \in DatasetVersions : ChangeFile(d)

SpecServe == InitServe /\ [][NextServe]_vars

(***************************************************************************)
(* The pages rendering the responses of the backend                        *)
(***************************************************************************)
NoDataset == [columns |-> <<>>, label |-> 0]

\* A page holding a response of the backend in its prediction state.
InitRender ==
    /\ dataset = NoDataset
    /\ all_unique_symptoms = <<>>
    /\ call = Pending(<<>>)
    /\ requests = NoRequests
    /\ loaded = <<>>
    /\ page \in RenderedPages
    /\ prediction \in { Classify(probability) : probability \in Probabilities }
    /\ view = NoView
    /\ formData = NoFormData
    /\ body = NoBody
    /\ clicks = 0
    /\ loading = FALSE
    /\ error = null
    /\ outstanding = {}
    /\ submits = 0
    /\ sinceReset = FALSE

\* {prediction && ( ... )} of KidneyPage: the probability circle's text class,
\* the Positive / Negative line, the risk level's background class.
RenderKidney ==
    /\ page = "kidney"
    /\ view = NoView
    /\ view' = [color |-> getProbabilityColor(prediction.probability),
                riskColor |-> getRiskColor(prediction.risk_level),
                message |-> IF prediction.prediction THEN "Positive" ELSE "Negative",
                percent |-> KidneyPercent(prediction.probability)]
    /\ UNCHANGED <<vectorizerVars, serveVars, page, prediction, formVars, requestVars>>

\* {prediction && ( ... )} of LiverPage.
RenderLiver ==
    /\ page = "liver"
    /\ view = NoView
    /\ view' = [color |-> LiverRiskColor(prediction.probability),
                riskColor |-> LiverRiskColor(prediction.probability),
                message |-> LiverRiskMessage(prediction.probability),
                percent |-> LiverPercent(prediction.probability)]
    /\ UNCHANGED <<vectorizerVars, serveVars, page, prediction, formVars, requestVars>>

\* {prediction && ( ... )} of ParkinsonsPage.
RenderParkinsons ==
    /\ page = "parkinsons"
    /\ view = NoView
    /\ view' = [color |-> ParkinsonsColor(prediction.probability),
                riskColor |-> ParkinsonsColor(prediction.probability),
                message |-> ParkinsonsDiagnosis(prediction.probability),
                percent |-> ParkinsonsPercent(prediction.probability)]
    /\ UNCHANGED <<vectorizerVars, serveVars, page, prediction, formVars, requestVars>>

\* {prediction && ( ... )} of BreastCancerPage.
RenderBreast ==
    /\ page = "breast"
    /\ view = NoView
    /\ view' = [color |-> BreastStroke(prediction.risk_level),
                riskColor |-> BreastRiskColor(prediction.risk_level),
                message |-> IF prediction.prediction THEN "Malignant" ELSE "Benign",
                percent |-> BreastPercent(prediction.probability)]
    /\ UNCHANGED <<vectorizerVars, serveVars, page, prediction, formVars, requestVars>>

\* {prediction && ( ... )} of HeartDiseasePage: every figure is text-red-500.
RenderHeart ==
    /\ page = "heart"
    /\ view = NoView
    /\ view' = [color |-> "text-red-500",
                riskColor |-> "text-red-500",
                message |-> IF prediction.prediction THEN "Positive" ELSE "Negative",
                percent |-> HeartPercent(prediction.probability)]
    /\ UNCHANGED <<vectorizerVars, serveVars, page, prediction, formVars, requestVars>>

\* {prediction && ( ... )} of DiabetesPage.
RenderDiabetes ==
    /\ page = "diabetes"
    /\ view = NoView
    /\ view' = [color |-> IF prediction.prediction THEN "text-red-500" ELSE "text-green-500",
                riskColor |-> DiabetesRiskColor(prediction.risk_level),
                message |-> IF prediction.prediction THEN "Positive" ELSE "Negative",
                percent |-> DiabetesPercent(prediction.probability)]
    /\ UNCHANGED <<vectorizerVars, serveVars, page, prediction, formVars, requestVars>>

\* {prediction && ( ... )} of LungCancerPage.
RenderLung ==
    /\ page = "lung"
    /\ view = NoView
    /\ view' = [color |-> LungStroke(prediction.probability),
                riskColor |-> LungRiskColor(prediction.probability),
                message |-> LungRiskMessage(prediction.probability),
                percent |-> LungPercent(prediction.probability)]
    /\ UNCHANGED <<vectorizerVars, serveVars, page, prediction, formVars, requestVars>>

NextRender ==
    \/ RenderKidney
    \/ RenderLiver
    \/ RenderParkinsons
    \/ RenderBreast
    \/ RenderHeart
    \/ RenderDiabetes
    \/ RenderLung

SpecRender == InitRender /\ [][NextRender]_vars

(***************************************************************************)
(* The request state of the disease pages: loading, error, prediction      *)
(***************************************************************************)
Pages == { "heart", "diabetes", "kidney", "lung", "liver", "breast", "parkinsons" }

\* useState of the error state: '' on the kidney page, null on the others.
InitialError(p) == IF p = "kidney" THEN "" ELSE null

\* The submit button of a page, were it never disabled.
disabledNever(p, isLoading) == FALSE

\* disabled={loading} (disabled={isLoading}) of the submit button; the Predict
\* button of the diabetes page has no disabled attribute.
disabled(p, isLoading) ==
    IF p \in { "liver", "heart", "kidney", "breast", "lung", "parkinsons" }
    THEN isLoading
    ELSE FALSE

\* The start of a submit handler, were the error state left as it is.
ErrorAtSubmitKept(p, previous) == previous

\* setError('') of the heart and kidney pages, setError(null) of the others.
ErrorAtSubmit(p, previous) == IF p \in { "heart", "kidney" } THEN "" ELSE null

\* How a fetch fails: it rejects (network error), or the response is not OK
\* and its JSON body has this detail ("" when it has none).
Failures ==
    { [kind |-> "network", detail |-> ""],
      [kind |-> "status", detail |-> ""],
      [kind |-> "status", detail |-> "Invalid input"] }

\* a || b of two strings
Or(a, b) == IF a = "" THEN b ELSE a

\* The message of the Error that reaches the catch clause:
\*   fetch rejecting throws a TypeError;
\*   if (!response.ok) throw new Error(...).
thrown(p, failure) ==
    IF failure.kind = "network" THEN "Failed to fetch"
    ELSE CASE p = "liver" -> "Failed to get prediction"
           [] p = "lung" -> "Prediction failed"
           [] p = "heart" -> Or(failure.detail, "Failed to get prediction")
           [] OTHER -> Or(failure.detail, "Prediction failed")

\* A catch clause that records nothing.
catchSilent(p, message) == null

\* catch (err) { setError(...) }: the message of the Error, or the page's own
\* text on the diabetes, Parkinson's and lung pages.
catch(p, message) ==
    CASE p = "diabetes" ->
             "Failed to get prediction. Please make sure the backend server is running."
      [] p = "parkinsons" ->
             "Failed to get prediction. Please make sure all fields are filled correctly."
      [] p = "lung" -> "Failed to get prediction. Please try again."
      [] OTHER -> message

\* The probabilities of the responses followed: 0, one half and 1.
ResultProbabilities == { 0, ProbDen \div 2, ProbDen }

\* await response.json() of the response to the fetch of a submit.
Result(submit, probability) ==
    [request |-> submit,
     prediction |-> Classify(probability).prediction,
     probability |-> probability,
     risk_level |-> Classify(probability).risk_level]

\* What every submit handler does around its request: setLoading(true),
\* setError(null), fetch(...).
StartRequest ==
    /\ submits < MaxSubmits
    /\ ~disabled(page, loading)
    /\ loading' = TRUE
    /\ error' = ErrorAtSubmit(page, error)
    /\ outstanding' = outstanding \cup { submits + 1 }
    /\ submits' = submits + 1
    /\ sinceReset' = FALSE

(***************************************************************************)
(* The handlers of the disease pages                                       *)
(***************************************************************************)
\* handleInputChange of every page: setFormData(prev => ({ ...prev, [name]: value }))
handleInputChange(name, value) ==
    /\ clicks < MaxClicks
    /\ <<name, value>> \in Inputs(page)
    /\ formData' = Set(formData, name, value)
    /\ clicks' = clicks + 1
    /\ UNCHANGED <<vectorizerVars, serveVars, pageVars, body, requestVars>>

\* handleSampleData (handleUseSampleData on the lung page):
\* setFormData(getRandom...Data())
handleSampleData(u, v) ==
    /\ page \in FormPages
    /\ clicks < MaxClicks
    /\ formData' = getRandomData(page, u, v)
    /\ clicks' = clicks + 1
    /\ UNCHANGED <<vectorizerVars, serveVars, pageVars, body, requestVars>>

\* LungCancerPage.handleReset: setFormData({ ... }); setPrediction(null);
\* setError(null)
handleReset ==
    /\ page = "lung"
    /\ clicks < MaxClicks
    /\ formData' = LungFormData
    /\ prediction' = NoPrediction
    /\ error' = null
    /\ clicks' = clicks + 1
    /\ sinceReset' = TRUE
    /\ UNCHANGED <<vectorizerVars, serveVars, page, view, body, loading, outstanding, submits>>

\* HeartDiseasePage.handlePredict, up to the await of its fetch.
HeartHandlePredict ==
    /\ page = "heart"
    /\ StartRequest
    /\ body' = HeartBody(formData)
    /\ UNCHANGED <<vectorizerVars, serveVars, pageVars, formData, clicks>>

\* DiabetesPage.handlePredict, up to the await of its fetch.
DiabetesHandlePredict ==
    /\ page = "diabetes"
    /\ StartRequest
    /\ body' = DiabetesBody(formData)
    /\ UNCHANGED <<vectorizerVars, serveVars, pageVars, formData, clicks>>

\* KidneyPage.handleSubmit, up to the await of its fetch; the form's required
\* inputs are filled, or the browser does not submit it.
KidneyHandleSubmit ==
    /\ page = "kidney"
    /\ KidneyFormValid(formData)
    /\ StartRequest
    /\ body' = KidneyBody(formData)
    /\ UNCHANGED <<vectorizerVars, serveVars, pageVars, formData, clicks>>

\* LungCancerPage.handleSubmit, up to the await of its fetch.
LungHandleSubmit ==
    /\ page = "lung"
    /\ StartRequest
    /\ body' = LungBody(formData)
    /\ UNCHANGED <<vectorizerVars, serveVars, pageVars, formData, clicks>>

\* LiverPage.handleSubmit, up to the await of its fetch.
LiverHandleSubmit ==
    /\ page = "liver"
    /\ StartRequest
    /\ body' = LiverBody(formData)
    /\ UNCHANGED <<vectorizerVars, serveVars, pageVars, formData, clicks>>

\* BreastCancerPage.handleSubmit, up to the await of its fetch; the thirty
\* number inputs of the page and the body made of them are not followed.
BreastHandleSubmit ==
    /\ page = "breast"
    /\ StartRequest
    /\ UNCHANGED <<vectorizerVars, serveVars, pageVars, formVars>>

\* ParkinsonsPage.handlePredict, up to the await of its fetch; the twenty-two
\* number inputs of the page and the body made of them are not followed.
ParkinsonsHandlePredict ==
    /\ page = "parkinsons"
    /\ StartRequest
    /\ UNCHANGED <<vectorizerVars, serveVars, pageVars, formVars>>

\* A submit handler after its awaits, the response being OK:
\* setPrediction(result); finally setLoading(false).
Resolve(submit, probability) ==
    /\ submit \in outstanding
    /\ prediction' = Result(submit, probability)
    /\ loading' = FALSE
    /\ outstanding' = outstanding \ { submit }
    /\ UNCHANGED <<vectorizerVars, serveVars, page, view, formVars, error, submits, sinceReset>>

\* A submit handler after its awaits, the fetch having failed:
\* catch setError(...); finally setLoading(false).
Reject(submit, failure) ==
    /\ submit \in outstanding
    /\ error' = catch(page, thrown(page, failure))
    /\ loading' = FALSE
    /\ outstanding' = outstanding \ { submit }
    /\ UNCHANGED <<vectorizerVars, serveVars, pageVars, formVars, submits, sinceReset>>

(***************************************************************************)
(* A page's form from its first render to the request it sends             *)
(***************************************************************************)
InitForm ==
    /\ dataset = NoDataset
    /\ all_unique_symptoms = <<>>
    /\ call = Pending(<<>>)
    /\ requests = NoRequests
    /\ loaded = <<>>
    /\ page \in FormPages
    /\ prediction = NoPrediction
    /\ view = NoView
    /\ formData = InitialFormData(page)
    /\ body = NoBody
    /\ clicks = 0
    /\ loading = FALSE
    /\ error = InitialError(page)
    /\ outstanding = {}
    /\ submits = 0
    /\ sinceReset = FALSE

\* The inputs the user makes until the page sends its first request.
NextForm ==
    \/ \E name \in { input[1] : input \in Inputs(page) } :
           \E value \in { input[2] : input \in Inputs(page) } :
               body = NoBody /\ handleInputChange(name, value)
    \/ \E u, v \in RandomDraws : body = NoBody /\ handleSampleData(u, v)
    \/ body = NoBody /\ handleReset
    \/ body = NoBody /\ HeartHandlePredict
    \/ body = NoBody /\ DiabetesHandlePredict
    \/ body = NoBody /\ KidneyHandleSubmit
    \/ body = NoBody /\ LungHandleSubmit
    \/ body = NoBody /\ LiverHandleSubmit

SpecForm == InitForm /\ [][NextForm]_vars

(***************************************************************************)
(* A page from its first render through its submits and their responses    *)
(***************************************************************************)
InitPage ==
    /\ dataset = NoDataset
    /\ all_unique_symptoms = <<>>
    /\ call = Pending(<<>>)
    /\ requests = NoRequests
    /\ loaded = <<>>
    /\ page \in Pages
    /\ prediction = NoPrediction
    /\ view = NoView
    /\ formData = IF page \in FormPages THEN InitialFormData(page) ELSE NoFormData
    /\ body = NoBody
    /\ clicks = 0
    /\ loading = FALSE
    /\ error = InitialError(page)
    /\ outstanding = {}
    /\ submits = 0
    /\ sinceReset = FALSE

\* A fetch settles: its response is OK, or it has failed.
Settle ==
    \/ \E submit \in outstanding : \E probability \in ResultProbabilities :
           Resolve(submit, probability)
    \/ \E submit \in outstanding : \E failure \in Failures : Reject(submit, failure)

\* The form is filled by Use Sample Data and emptied by Reset.
NextPage ==
    \/ \E u, v \in RandomDraws : handleSampleData(u, v)
    \/ handleReset
    \/ HeartHandlePredict
    \/ DiabetesHandlePredict
    \/ KidneyHandleSubmit
    \/ LungHandleSubmit
    \/ LiverHandleSubmit
    \/ BreastHandleSubmit
    \/ ParkinsonsHandlePredict
    \/ Settle

SpecPage == InitPage /\ [][NextPage]_vars

\* Every fetch settles: the browser answers it or fails it.
SpecPageFair == SpecPage /\ WF_vars(Settle)

(***************************************************************************)
(* The notebooks encoding a categorical column                             *)
(***************************************************************************)
NoTable == {}

\* A column of the training data and one of its tokens, not yet encoded.
PendingEncode(col, column, token) ==
    [fn |-> "none", col |-> col, column |-> column, token |-> token,
     table |-> NoTable, code |-> -1, raised |-> "none", decoded |-> <<>>]

InitEncode ==
    /\ dataset = NoDataset
    /\ all_unique_symptoms = <<>>
    /\ call \in { PendingEncode(col, column, token) :
                     col \in categorical_cols \cup { "GENDER" },
                     column \in SUBSET (UNION { ColumnTokens(c) : c \in categorical_cols \cup { "GENDER" } }),
                     token \in UNION { ColumnTokens(c) : c \in categorical_cols \cup { "GENDER" } } }
    /\ call.column \subseteq ColumnTokens(call.col)
    /\ call.token \in call.column
    /\ requests = NoRequests
    /\ loaded = <<>>
    /\ page = "none"
    /\ prediction = NoPrediction
    /\ view = NoView
    /\ formData = NoFormData
    /\ body = NoBody
    /\ clicks = 0
    /\ loading = FALSE
    /\ error = null
    /\ outstanding = {}
    /\ submits = 0
    /\ sinceReset = FALSE

\* le = LabelEncoder(); le.fit(...) of the kidney loop, the dict of the lung map.
Fit ==
    /\ call.fn = "none"
    /\ call' = [call EXCEPT !.fn = "fit", !.table = TrainingTable(call.col, call.column)]
    /\ UNCHANGED <<dataset, all_unique_symptoms, serveVars, pageVars, formVars, requestVars>>

\* df_processed[col] = le.fit_transform(df_processed[col]); .map(...)
FitTransform ==
    LET out == Transform(call.table, call.token) IN
    /\ call.fn = "fit"
    /\ call' = [call EXCEPT !.fn = "transform", !.code = out.code, !.raised = out.raised]
    /\ UNCHANGED <<dataset, all_unique_symptoms, serveVars, pageVars, formVars, requestVars>>

\* The code read back through the same table.
Decode ==
    /\ call.fn = "transform"
    /\ call.raised = "none"
    /\ call' = [call EXCEPT !.fn = "inverse_transform",
                            !.decoded = InverseTransform(call.table, call.code)]
    /\ UNCHANGED <<dataset, all_unique_symptoms, serveVars, pageVars, formVars, requestVars>>

NextEncode ==
    \/ Fit
    \/ FitTransform
    \/ Decode

SpecEncode == InitEncode /\ [][NextEncode]_vars

(***************************************************************************)
(* Scoring a vector with the trained symptom model                         *)
(***************************************************************************)
\* The number of features the model was fitted on: the columns of
\* X = np.zeros((len(df), len(all_unique_symptoms))).
n_features_in_(symptom_names) == Len(symptom_names)

\* s cut or filled with zeros to the width.
Fitted(s, width) == [j \in 1..width |-> IF j <= Len(s) THEN s[j] ELSE 0]

\* score(vector) of a best-effort adapter: the vector is made to fit.
scoreBestEffort(n_features, vector, probability) ==
    [raised |-> "none", scored |-> Fitted(vector, n_features), probability |-> probability]

\* score(vector) of the Risk Classifier Adapter: the artifact's probability
\* for the vector, ModelInferenceError when the vector's length is not the
\* artifact's input dimensionality.
score(n_features, vector, probability) ==
    IF Len(vector) # n_features
    THEN [raised |-> "ModelInferenceError", scored |-> <<>>, probability |-> 0]
    ELSE [raised |-> "none", scored |-> vector, probability |-> probability]

\* The model was trained on one version of the dataset file, the server
\* reads another or the same.
InitScore ==
    /\ dataset \in DatasetVersions
    /\ all_unique_symptoms \in UNION { ListOfSet(Range(Vocabulary(d))) : d \in DatasetVersions }
    /\ call \in { Pending(symptoms) : symptoms \in ServeLists }
    /\ requests = NoRequests
    /\ loaded = <<>>
    /\ page = "none"
    /\ prediction = NoPrediction
    /\ view = NoView
    /\ formData = NoFormData
    /\ body = NoBody
    /\ clicks = 0
    /\ loading = FALSE
    /\ error = null
    /\ outstanding = {}
    /\ submits = 0
    /\ sinceReset = FALSE

\* The vector of the finished call is scored; the model answers with some
\* probability.
Score(probability) ==
    LET out == score(n_features_in_(all_unique_symptoms), call.array, probability) IN
    /\ call.fn \in { "prepare_symptoms_array", "predict_disease" }
    /\ call' = [fn |-> "score", symptoms |-> call.symptoms, raised |-> out.raised,
                array |-> call.array, scored |-> out.scored]
    /\ prediction' = IF out.raised = "none" THEN Classify(out.probability) ELSE prediction
    /\ UNCHANGED <<dataset, all_unique_symptoms, serveVars, page, view, formVars, requestVars>>

NextScore ==
    \/ Vectorize
    \/ PredictDisease
    \/ \E probability \in Probabilities : Score(probability)

SpecScore == InitScore /\ [][NextScore]_vars

(***************************************************************************)
(* Properties of prepare_symptoms_array                                    *)
(***************************************************************************)
Returned == call.fn = "prepare_symptoms_array"

InsertAt(s, k, u) == SubSeq(s, 1, k) \o <<u>> \o SubSeq(s, k + 1, Len(s))

RemoveAt(s, i) == SubSeq(s, 1, i - 1) \o SubSeq(s, i + 1, Len(s))

\* The token equals a vocabulary entry once both are lower-cased.
MatchesEntry(entry, token) == token.isStr /\ lower(entry) = lower(token.chars)

MatchesVocabulary(d, token) ==
    \E k \in DOMAIN Vocabulary(d) : MatchesEntry(Vocabulary(d)[k], token)

\* Processing the token raises inside the try block.
Raises(columns, token) ==
    TryBody(columns, zeros(ArrayWidth(columns)), token).exc # "none"

AllZero(array) == \A j \in DOMAIN array : array[j] = 0

\* C1: whatever the symptom list (matching tokens, non-matching tokens, tokens
\* whose processing raises), the call returns a vector with one slot per
\* vocabulary entry: as many slots as the dataset has columns other than the
\* non-symptom one.
VectorLengthIsVocabularySize ==
    Returned =>
        /\ call.raised = "none"
        /\ Len(call.array) = Len(Vocabulary(dataset))

\* A call on a list holding a matching token and a token that raises, on a
\* dataset with two symptom columns.
VectorLengthWitness ==
    /\ Returned
    /\ Len(dataset.columns) = 3
    /\ Len(call.symptoms) = 2
    /\ MatchesVocabulary(dataset, call.symptoms[1])
    /\ call.symptoms[2] = NonStr
    /\ Len(call.array) = 2

\* C2: the serving vectorizer and the notebook's vectorizer give every symptom
\* the same slot and their vectors have the same length: on a list of symptom
\* names spelled as in the vocabulary, both build the same vector.
ServingOrderIsTrainingOrder ==
    (/\ call.fn = "predict_disease"
     /\ \A i \in DOMAIN call.symptoms :
            /\ call.symptoms[i].isStr
            /\ call.symptoms[i].chars \in Range(Vocabulary(dataset)))
    => call.array = prepare_symptoms_array(dataset.columns, call.symptoms).array

\* C3: every vocabulary entry that equals an input token after lower-casing
\* has its slot set to 1 in the returned vector, also when two entries differ
\* only in letter case.
EveryMatchingEntrySet ==
    Returned =>
        \A i \in DOMAIN call.symptoms : \A k \in DOMAIN Vocabulary(dataset) :
            MatchesEntry(Vocabulary(dataset)[k], call.symptoms[i])
                => /\ k \in DOMAIN call.array
                   /\ call.array[k] = 1

\* C4: a token that matches no vocabulary entry, inserted anywhere into the
\* list, leaves the returned vector as it is, and no error reaches the caller.
UnknownSymptomTolerated ==
    Returned =>
        \A u \in Tokens : \A k \in 0..Len(call.symptoms) :
            ~MatchesVocabulary(dataset, u) =>
                LET with == prepare_symptoms_array(dataset.columns,
                                                   InsertAt(call.symptoms, k, u)) IN
                /\ with.raised = "none"
                /\ with.array = call.array

\* C5: a token whose processing raises is absorbed: the call returns, and what
\* it returns is the vector of the list without that token, so the tokens
\* before and after it are processed as usual.
BadTokenIsolated ==
    Returned =>
        /\ call.raised = "none"
        /\ \A i \in DOMAIN call.symptoms :
               Raises(dataset.columns, call.symptoms[i]) =>
                   LET without == prepare_symptoms_array(dataset.columns,
                                                         RemoveAt(call.symptoms, i)) IN
                   /\ without.raised = "none"
                   /\ without.array = call.array

\* A call whose first token is no string and whose second token is matched
\* and sets its slot.
BadTokenWitness ==
    /\ Returned
    /\ Len(call.symptoms) = 2
    /\ call.symptoms[1] = NonStr
    /\ MatchesVocabulary(dataset, call.symptoms[2])
    /\ \E j \in DOMAIN call.array : call.array[j] = 1

\* C6: the empty list, and any list none of whose tokens matches a vocabulary
\* entry, gives the all-zero vector.
NoMatchGivesZeroVector ==
    (/\ Returned
     /\ \A i \in DOMAIN call.symptoms : ~MatchesVocabulary(dataset, call.symptoms[i]))
    => AllZero(call.array)

(***************************************************************************)
(* Properties of the serving process                                       *)
(***************************************************************************)
Responded(w) == requests[w].response.columns # <<>>

\* C7: the vocabulary is fixed when the process loads it: every call of the
\* process uses the header row the first call used, whatever happens to the
\* dataset file on disk in between.
VocabularyFixedAtLoad ==
    \A w \in Workers :
        Responded(w) => requests[w].response.columns = loaded

\* C8: the vector is a function of the symptom list and the vocabulary alone:
\* two calls with the same list on the same vocabulary return the same vector,
\* whatever ran before or between them, and a call's steps change nothing a
\* later or concurrent call reads (the dataset file, the other request's
\* variables).
SameInputSameVector ==
    \A w1, w2 \in Workers :
        (/\ Responded(w1)
         /\ Responded(w2)
         /\ requests[w1].response.symptoms = requests[w2].response.symptoms
         /\ requests[w1].response.columns = requests[w2].response.columns)
        => /\ requests[w1].response.array = requests[w2].response.array
           /\ requests[w1].response.raised = "none"
           /\ requests[w1].response.array =
                  prepare_symptoms_array(requests[w1].response.columns,
                                         requests[w1].response.symptoms).array

CallsWriteNothingShared ==
    \A w \in Workers :
        requests'[w] # requests[w] =>
            /\ dataset' = dataset
            /\ \A v \in Workers \ {w} : requests'[v] = requests[v]

VectorizationIsPure ==
    /\ []SameInputSameVector
    /\ [][CallsWriteNothingShared]_vars

\* Both requests have answered the same list on the same header row with a
\* vector holding a 1, one of them after answering another list before, and
\* the file on disk has changed since.
VectorizationIsPureWitness ==
    /\ Responded(1)
    /\ Responded(2)
    /\ requests[1].response.symptoms = requests[2].response.symptoms
    /\ requests[1].response.columns = requests[2].response.columns
    /\ \E j \in DOMAIN requests[1].response.array : requests[1].response.array[j] = 1
    /\ requests[2].pc = "loop"
    /\ requests[2].symptoms # requests[2].response.symptoms
    /\ dataset.columns # requests[1].response.columns

(***************************************************************************)
(* Properties of the risk classification and its rendering                 *)
(***************************************************************************)
Rendered == view # NoView

\* The hue of a Tailwind colour class.
Hue(class) ==
    CASE class \in { "text-red-500", "bg-red-500", "text-red-400", "#ef4444" } -> "red"
      [] class \in { "text-yellow-500", "bg-yellow-500", "text-yellow-400", "#f59e0b" } -> "yellow"
      [] class \in { "text-green-500", "bg-green-500", "text-green-400", "#22c55e" } -> "green"
      [] OTHER -> "other"

\* C9: every probability in [0,1] is in exactly one of three buckets, Low below
\* 0.3, Medium from 0.3 to below 0.7, High from 0.7, and every disease uses
\* these buckets: the kidney page's bucketing of the probability (its colour)
\* is the bucket of the risk level.
RiskBucketsUniform ==
    (Rendered /\ page = "kidney") =>
        /\ prediction.risk_level \in { "Low", "Medium", "High" }
        /\ (prediction.risk_level = "Low") = (10 * prediction.probability < 3 * ProbDen)
        /\ (prediction.risk_level = "High") = (10 * prediction.probability >= 7 * ProbDen)
        /\ Hue(view.color) = Hue(view.riskColor)

BucketHue(probability) ==
    IF 10 * probability < 3 * ProbDen THEN "green"
    ELSE IF 10 * probability < 7 * ProbDen THEN "yellow"
    ELSE "red"

\* The shown number is 100 x probability, up to the rounding of the display
\* (half a percentage point at most).
ShowsHundredTimes(percent, probability) ==
    LET diff == percent.num * ProbDen - 100 * probability * percent.den IN
    /\ percent.den > 0
    /\ 2 * diff <= ProbDen * percent.den
    /\ 2 * diff >= 0 - ProbDen * percent.den

\* C11: the response probability is on the [0,1] scale for every disease:
\* every page displays 100 x probability as its percentage, and where a page
\* colours by the probability it does so at 0.3 / 0.7 (kidney) or at 0.5
\* (liver, Parkinson's, lung) on that scale.
ProbabilityOnUnitScale ==
    Rendered =>
        /\ ShowsHundredTimes(view.percent, prediction.probability)
        /\ page = "kidney" => Hue(view.color) = BucketHue(prediction.probability)
        /\ page \in { "liver", "parkinsons" } =>
               (Hue(view.color) = "red") = (2 * prediction.probability >= ProbDen)
        /\ page = "lung" =>
               (Hue(view.color) = "red") = (2 * prediction.probability < ProbDen)

(***************************************************************************)
(* Properties of the requests the pages send                               *)
(***************************************************************************)
Sent(p) == page = p /\ body # NoBody

KeySet(obj) == { obj[i].key : i \in DOMAIN obj }

\* C12: a required numeric field whose raw value is not a number (the empty
\* string) is never replaced by a substitute number such as 0 in what is sent
\* for scoring.
NoSubstituteNumber ==
    body # NoBody =>
        \A i \in DOMAIN formData :
            (formData[i].key \in NumberInputs(page) /\ ~IsNumeral(formData[i].value)) =>
                \A j \in DOMAIN body :
                    body[j].key = formData[i].key => body[j].value.type # "number"

\* C13: a categorical token outside the field's encoding table never yields
\* the code of a known token: a liver gender that is neither Male ('1') nor
\* Female ('0') is not sent as the code 1 or 0.
UnknownTokenNotEncoded ==
    Sent("liver") =>
        (Get(formData, "gender") \notin { <<"1">>, <<"0">> } =>
            Get(body, "gender").type # "number")

\* C17: every heart request carries exactly the 12 fields of the heart schema,
\* after any field edits and Use Sample Data clicks.
HeartRequestHasTwelveFields ==
    Sent("heart") =>
        /\ Len(body) = 12
        /\ KeySet(body) = { "age", "sex", "cp", "trestbps", "chol", "fbs", "restecg",
                            "thalach", "exang", "slope", "ca", "thal" }

\* C18: the diabetes request carries the 8 fields in the order Pregnancies,
\* Glucose, BloodPressure, SkinThickness, Insulin, BMI,
\* DiabetesPedigreeFunction, Age, each the numeric value of its form entry;
\* the form's initial state gives [4, 130, 78, 25, 120, 28.5, 0.85, 35].
DiabetesRequestInOrder ==
    Sent("diabetes") =>
        /\ Keys(body) = << "Pregnancies", "Glucose", "BloodPressure", "SkinThickness",
                           "Insulin", "BMI", "DiabetesPedigreeFunction", "Age" >>
        /\ \A i \in DOMAIN body :
               LET entry == Get(formData, body[i].key) IN
               IsNumeral(entry) =>
                   /\ body[i].value.type = "number"
                   /\ Dec(body[i].value.num, body[i].value.exp) = NumeralValue(entry)
        /\ formData = DiabetesFormData =>
               [i \in DOMAIN body |-> <<body[i].value.type, body[i].value.num, body[i].value.exp>>]
                   = << <<"number", 4, 0>>, <<"number", 130, 0>>, <<"number", 78, 0>>,
                        <<"number", 25, 0>>, <<"number", 120, 0>>, <<"number", 285, 1>>,
                        <<"number", 85, 2>>, <<"number", 35, 0>> >>

\* The diabetes page sending sample data with a BMI that has a fraction.
DiabetesRequestWitness ==
    /\ Sent("diabetes")
    /\ clicks > 0
    /\ Get(body, "BMI").exp = 1
    /\ Get(body, "Glucose").num >= 70

\* The tokens of a kidney select.
KidneyTokens(key) ==
    CASE key \in { "rbc", "pc" } ->
             { <<"n", "o", "r", "m", "a", "l">>, <<"a", "b", "n", "o", "r", "m", "a", "l">> }
      [] key \in { "pcc", "ba" } ->
             { <<"p", "r", "e", "s", "e", "n", "t">>,
               <<"n", "o", "t", "p", "r", "e", "s", "e", "n", "t">> }
      [] key \in { "htn", "dm", "cad", "pe", "ane" } -> { <<"y", "e", "s">>, <<"n", "o">> }
      [] key = "appet" -> { <<"g", "o", "o", "d">>, <<"p", "o", "o", "r">> }
      [] OTHER -> {}

\* C19: every kidney request has exactly 24 fields, the 14 numeric ones hold
\* numbers and each of the 10 categorical ones holds one of the two tokens of
\* its table, after any field edits and Use Sample Data clicks.
KidneyRequestWellFormed ==
    Sent("kidney") =>
        /\ Len(body) = 24
        /\ Cardinality(KeySet(body)) = 24
        /\ Cardinality({ i \in DOMAIN body : body[i].value.type = "number" }) = 14
        /\ \A i \in DOMAIN body :
               \/ /\ body[i].key \in { "age", "bp", "sg", "al", "su", "bgr", "bu", "sc", "sod",
                                        "pot", "hemo", "pcv", "wc", "rc" }
                  /\ body[i].value.type = "number"
               \/ /\ body[i].value.type = "string"
                  /\ body[i].value.chars \in KidneyTokens(body[i].key)

\* The kidney page sending sample data after an edit of a select.
KidneyRequestWitness ==
    /\ Sent("kidney")
    /\ clicks = 2
    /\ Get(body, "sg").exp > 0
    /\ Get(body, "rbc").chars = <<"a", "b", "n", "o", "r", "m", "a", "l">>
    /\ Get(body, "appet").chars = <<"p", "o", "o", "r">>

\* C20: every lung request has a gender token in {M, F}, an age, and 13
\* further fields each with a value in {0, 1, 2}, after any field edits, Use
\* Sample Data and Reset clicks.
LungRequestWellFormed ==
    Sent("lung") =>
        /\ Len(body) = 15
        /\ Get(body, "gender").chars \in { <<"M">>, <<"F">> }
        /\ IsNumeral(Get(body, "age").chars)
        /\ \A i \in DOMAIN body :
               body[i].key \notin { "gender", "age" } =>
                   body[i].value.chars \in { <<"0">>, <<"1">>, <<"2">> }

(***************************************************************************)
(* Properties of the categorical encodings                                 *)
(***************************************************************************)
Encoded == call.fn \in { "transform", "inverse_transform" }

\* C14: kidney rbc "abnormal" encodes to 1, pcc "present" to 1 and htn "yes"
\* to 1, and these codes, those of the stated token tables, are the ones the
\* training pipeline assigned: fitted on a column holding both tokens, the
\* notebook's encoder gives every token of rbc, pcc and htn the table's code.
KidneyCodesAreTrainingCodes ==
    (Encoded /\ call.col \in { "rbc", "pcc", "htn" } /\ call.column = ColumnTokens(call.col)) =>
        /\ call.raised = "none"
        /\ <<call.token, call.code>> \in encodingRule(call.col)
        /\ call.token \in { <<"a", "b", "n", "o", "r", "m", "a", "l">>, <<"p", "r", "e", "s", "e", "n", "t">>, <<"y", "e", "s">> } => call.code = 1

\* C15: category round-trip: every token of a field's encoding table, encoded
\* and decoded through the same table, comes back as itself (no two tokens of
\* a table share a code).
CategoryRoundTrip ==
    /\ call.fn \in { "fit", "transform", "inverse_transform" } =>
           \A a, b \in call.table : a[2] = b[2] => a[1] = b[1]
    /\ call.fn = "inverse_transform" => call.decoded = call.token

\* Female of the lung GENDER map, and poor of a fitted appet column, read back.
CategoryRoundTripWitness ==
    /\ call.fn = "inverse_transform"
    /\ Cardinality(call.table) = 2
    /\ call.col \in { "GENDER", "appet" }
    /\ call.token \in { <<"F">>, <<"p", "o", "o", "r">> }
    /\ call.decoded = call.token

HighRiskMessages ==
    { "High risk of lung cancer detected",
      "High risk of liver disease detected",
      "High risk of Parkinsons disease detected" }

\* C22: each page shows its high-risk message by its own polarity: the lung
\* page exactly when probability < 0.5, the liver and Parkinson's pages
\* exactly when probability >= 0.5; so for one probability the lung page and
\* the liver page never both show high risk.
OwnPolarity ==
    (Rendered /\ page \in { "lung", "liver", "parkinsons" }) =>
        LET probability == prediction.probability IN
        /\ page = "lung" =>
               (view.message \in HighRiskMessages) = (2 * probability < ProbDen)
        /\ page \in { "liver", "parkinsons" } =>
               (view.message \in HighRiskMessages) = (2 * probability >= ProbDen)
        /\ ~ /\ LungRiskMessage(probability) \in HighRiskMessages
             /\ LiverRiskMessage(probability) \in HighRiskMessages

\* The lung page showing high risk for a probability of 0.4, one the liver
\* page calls low risk.
OwnPolarityWitness ==
    /\ Rendered
    /\ page = "lung"
    /\ 10 * prediction.probability = 4 * ProbDen
    /\ view.message = "High risk of lung cancer detected"
    /\ LiverRiskMessage(prediction.probability) = "Low risk of liver disease detected"

(***************************************************************************)
(* Properties of the heart request's pre-encoded fields                    *)
(***************************************************************************)
\* The codes offered by the options of a heart select.
HeartOptionCodes(key) ==
    CASE key \in { "sex", "fbs", "exang" } -> 0..1
      [] key \in { "restecg", "slope" } -> 0..2
      [] key \in { "cp", "ca" } -> 0..3
      [] key = "thal" -> 1..3

HeartSelects == { "sex", "cp", "fbs", "restecg", "exang", "slope", "ca", "thal" }

\* C23: every pre-encoded categorical heart field sent (sex, cp, fbs, restecg,
\* exang, slope, ca, thal) has a value among the codes of that field's select
\* options, also after Use Sample Data.
HeartCodesAreOptionCodes ==
    Sent("heart") =>
        \A key \in HeartSelects :
            /\ Has(body, key)
            /\ Get(body, key).type = "number"
            /\ Get(body, key).exp = 0
            /\ Get(body, key).num \in HeartOptionCodes(key)

(***************************************************************************)
(* Properties of prepare_symptoms_array: slots and columns, sets of tokens *)
(***************************************************************************)
\* The token equals the header name at a position once both are lower-cased.
MatchesColumn(columns, k, token) == token.isStr /\ lower(columns[k]) = lower(token.chars)

\* C29: every slot set to 1 belongs to a symptom column: a token that equals
\* the name of the non-symptom column (case-insensitively) changes no slot and
\* raises no error, and every matched symptom column has an in-range slot, so
\* no symptom column is silently dropped.
SetSlotsAreSymptomColumns ==
    Returned =>
        LET columns == dataset.columns IN
        /\ call.raised = "none"
        /\ \A j \in DOMAIN call.array :
               call.array[j] = 1 =>
                   /\ j # dataset.label
                   /\ \E i \in DOMAIN call.symptoms : MatchesColumn(columns, j, call.symptoms[i])
        /\ \A i \in DOMAIN call.symptoms :
               (/\ MatchesColumn(columns, dataset.label, call.symptoms[i])
                /\ ~MatchesVocabulary(dataset, call.symptoms[i])) =>
                   call.array = prepare_symptoms_array(columns, RemoveAt(call.symptoms, i)).array
        /\ \A i \in DOMAIN call.symptoms : \A k \in DOMAIN columns :
               (k # dataset.label /\ MatchesColumn(columns, k, call.symptoms[i])) =>
                   k \in DOMAIN call.array

\* The case-folded token: lower-cased when it is a string.
Fold(token) == IF token.isStr THEN Str(lower(token.chars)) ELSE token

FoldedSet(symptoms) == { Fold(symptoms[i]) : i \in DOMAIN symptoms }

\* The vector of the list holding one token.
VectorOfToken(columns, token) == prepare_symptoms_array(columns, <<token>>).array

\* C30: the returned vector depends only on the set of case-folded tokens:
\* a slot is 1 exactly when some token of that set sets it on its own, and 0
\* otherwise. So reordering the list or repeating a token returns the same
\* vector, slots hold only 0 or 1, and adding tokens (a larger set) never
\* turns a slot from 1 to 0.
VectorOfTokenSet ==
    Returned =>
        /\ call.raised = "none"
        /\ \A j \in DOMAIN call.array :
               /\ call.array[j] \in { 0, 1 }
               /\ (call.array[j] = 1) =
                      (\E token \in FoldedSet(call.symptoms) :
                           VectorOfToken(dataset.columns, token)[j] = 1)

\* A call on a list that names one symptom twice in different letter case,
\* and sets its slot.
VectorOfTokenSetWitness ==
    /\ Returned
    /\ Len(call.symptoms) = 2
    /\ call.symptoms[1] # call.symptoms[2]
    /\ Fold(call.symptoms[1]) = Fold(call.symptoms[2])
    /\ \E j \in DOMAIN call.array : call.array[j] = 1

(***************************************************************************)
(* Properties of the pages' request state                                  *)
(***************************************************************************)
\* A submit handler has started: one more submit has been handled.
Submitted == submits' = submits + 1

\* The catch clause of a submit handler has run.
Failed == \E submit \in outstanding : \E failure \in Failures : Reject(submit, failure)

\* C21: when a prediction request fails (network error or non-OK response),
\* the page records an error and leaves the stored prediction as it was before
\* the submit: neither the submit nor the failure writes the prediction.
FailedRequestKeepsPrediction ==
    [][/\ Failed => (prediction' = prediction /\ ~Empty(error'))
       /\ Submitted => prediction' = prediction]_vars

\* A page that stored a prediction and then had a later request fail.
FailedRequestWitness ==
    /\ page = "liver"
    /\ prediction # NoPrediction
    /\ prediction.request = 1
    /\ submits = 2
    /\ outstanding = {}
    /\ error = "Failed to get prediction"

\* C24: on the diabetes page, whose Predict button stays clickable, for any
\* interleaving of overlapping submits and responses the prediction finally
\* displayed is the response to the most recent submit (a later response never
\* gives way to an earlier submit's), and isLoading is true whenever a request
\* is outstanding.
LatestSubmitWins ==
    /\ [](page = "diabetes" =>
            /\ outstanding # {} => loading
            /\ (outstanding = {} /\ Empty(error) /\ submits > 0) =>
                   (prediction # NoPrediction /\ prediction.request = submits))
    /\ [][(/\ page = "diabetes"
           /\ prediction # NoPrediction
           /\ prediction' # NoPrediction
           /\ prediction' # prediction)
          => prediction'.request > prediction.request]_vars

\* C25: on the lung page, after Reset the form is in its initial state and
\* prediction and error are empty, and they stay empty until the next submit,
\* also when Reset is clicked while a request is outstanding.
ResetStaysClean ==
    /\ [](sinceReset => (prediction = NoPrediction /\ Empty(error)))
    /\ [][handleReset => formData' = LungFormData]_vars

\* C26: on every page a displayed error and a displayed prediction never
\* coexist: while the error state is non-empty, no prediction of an earlier
\* successful submit is stored.
ErrorExcludesPrediction == ~Empty(error) => prediction = NoPrediction

\* C27: every submit sets the loading flag and clears the previous error
\* before its request is sent; when a request settles the loading flag is
\* false again; and as every request settles, loading never stays true for
\* ever.
SubmitLoadsUntilSettled ==
    /\ [][Submitted => (loading' /\ Empty(error'))]_vars
    /\ [][Settle => ~loading']_vars
    /\ loading ~> ~loading

\* The liver page, its first request failed, having cleared the error for its
\* second submit.
SubmitLoadsWitness ==
    /\ page = "liver"
    /\ submits = 2
    /\ outstanding = { 2 }
    /\ prediction = NoPrediction
    /\ loading
    /\ error = null

\* C28: on the pages whose submit button is disabled while loading (liver,
\* heart, kidney, breast, lung, Parkinson's) at most one request is
\* outstanding at any time, and the loading flag is true exactly while a
\* request is outstanding.
OneRequestAtATime ==
    page \in { "liver", "heart", "kidney", "breast", "lung", "parkinsons" } =>
        /\ Cardinality(outstanding) <= 1
        /\ loading = (outstanding # {})

\* The kidney page waiting for the response to its second submit.
OneRequestWitness ==
    /\ page = "kidney"
    /\ submits = 2
    /\ outstanding = { 2 }
    /\ loading

====
